---- MODULE Spec2Model ----
(***************************************************************************)
(* FlowFix: the Make.com content script (src/content/make.js) and the      *)
(* background coordinator (src/popup/popup.js, lines 276-396).             *)
(*                                                                         *)
(* Time is kept in quarter-milliseconds so that every backoff delay of     *)
(* the poll loop (500, 750, 1125, 1687.5, 2531.25, 3000 ms) is an integer. *)
(* Pending setTimeout callbacks are kept in firing order.                  *)
(*                                                                         *)
(* Spec runs the content script of the Make tab together with the          *)
(* coordinator's handling of its messages; CoordSpec runs the coordinator  *)
(* alone against the messages of both tabs and of the popup.               *)
(***************************************************************************)
EXTENDS Integers, Sequences, FiniteSets, TLC

VARIABLES
    pc,            \* extractor context: "loading" before init() ran, then "running"
    attempts,      \* init(): let attempts
    pollDelay,     \* init(): let pollDelay (quarter-ms); Null before it is declared
    timers,        \* pending setTimeout(poll, ...) callbacks, in firing order
    observing,     \* urlObserver.observe(...) has been called
    lastUrl,       \* init(): let lastUrl
    href,          \* location.href of the Make tab
    dom,           \* what the page currently exposes to the lookups
    storage,       \* chrome.storage.local, key makeMetrics
    pageBadge,     \* metrics captured by the injected badge's click handler
    outbox,        \* chrome.runtime.sendMessage calls not yet handled by the coordinator
    metricsStore,  \* coordinator: const metricsStore
    badgeText,     \* chrome.action badge text per tab
    badgeColor,    \* chrome.action badge background color per tab
    analyze,       \* an ANALYZE_TAB request in progress in analyzeCurrentTab
    navigated,     \* history: location.href has changed since page load
    seenUrl,       \* history: location.href at page load or at the last DOM mutation
    ev,            \* history: what the last step did
    now,           \* Date.now() in milliseconds
    popup,         \* the popup's DOMContentLoaded handler: position, what it read, what it shows
    probe,         \* a metric set handed to calculateHealthScore and the score returned
    reported,      \* history: tryExtract reported an outcome since page load or the last reset
    call           \* a lookup function of the content script applied to a page: input and result

vars == <<pc, attempts, pollDelay, timers, observing, lastUrl, href, dom, storage,
          pageBadge, outbox, metricsStore, badgeText, badgeColor, analyze,
          navigated, seenUrl, ev, now, popup, probe, reported, call>>

extractorVars == <<pc, attempts, pollDelay, timers, observing, lastUrl, storage, pageBadge,
                   reported>>
coordVars == <<metricsStore, badgeText, badgeColor, analyze>>
auxVars == <<now, popup, probe, call>>

-----------------------------------------------------------------------------
(* Values *)

\* JavaScript null (an unresolved lookup, an undeclared variable, an empty badge text)
Null == -1

\* milliseconds to quarter-milliseconds
Ms(x) == 4 * x

maxAttempts == 30
InitialPollDelay == Ms(500)
MaxPollDelay == Ms(3000)
SettleDelay == Ms(1000)

\* Bounds of the model
MaxTimers == 2      \* navigation is not offered while this many callbacks are pending
MaxInFlight == 1    \* messages sent and not yet handled by the coordinator

MakeTab == 1
ZapierTab == 2
Tabs == {MakeTab, ZapierTab}
Urls == {"make.com/a", "make.com/b"}

NoMetrics == [platform |-> "null"]

\* What the lookups of extractMakeMetrics find on a page: the length of
\* extractScenarioList(), the number read from the scenario-count element,
\* extractOperationsUsed(), extractOperationsLimit() and the three results of
\* countScenariosByStatus.
Page(rows, cnt, used, lim, act, err, inact) ==
    [scenarioRows |-> rows, scenarioCount |-> cnt, opsUsed |-> used, opsLimit |-> lim,
     active |-> act, error |-> err, inactive |-> inact]

Pages ==
    { Page(0, Null, Null, Null, 0, 0, 0),        \* nothing rendered yet
      Page(0, 0, Null, Null, 0, 0, 0),           \* "0 scenarios", no usage widget
      Page(0, Null, 0, 10000, 0, 0, 0),          \* "0 of 10,000" operations: score 100
      Page(5, Null, 950, 1000, 4, 1, 0) }        \* score 30

\* Pages whose health score lies on a color threshold (80, 60, 40)
BoundaryPages ==
    { Page(10, Null, 1234, 10000, 9, 1, 0),
      Page(5, Null, Null, Null, 4, 1, 0),
      Page(10, Null, 600, 1000, 5, 2, 3) }

-----------------------------------------------------------------------------
(* Platform extractor and health scorer *)

Truthy(x) == x # Null /\ x # 0

\* Math.round(n / d) for n >= 0, d > 0
Round(n, d) == (2 * n + d) \div (2 * d)

Min(a, b) == IF a <= b THEN a ELSE b
Max(a, b) == IF a >= b THEN a ELSE b

\* the usage thresholds taken as inclusive
calculateHealthScore_Inclusive(m) ==
    LET usagePenalty ==
            IF Truthy(m.operationsUsagePercent)
            THEN IF m.operationsUsagePercent >= 90 THEN 30
                 ELSE IF m.operationsUsagePercent >= 75 THEN 15
                 ELSE IF m.operationsUsagePercent >= 50 THEN 5
                 ELSE 0
            ELSE 0
        errorPenalty == IF Truthy(m.errorRate) THEN Min(m.errorRate * 2, 40) ELSE 0
        base == 100 - usagePenalty - errorPenalty
        t == m.totalScenarios
        i == m.inactiveScenarios
    IN  IF i > 0 /\ t > 0
        THEN IF 50 * i >= 15 * t
             THEN Max(0, base - 15)
             ELSE Max(0, (2 * t * base - 100 * i + t) \div (2 * t))
        ELSE Max(0, base)

\* the two upper usage penalties exchanged
calculateHealthScore_Swapped(m) ==
    LET usagePenalty ==
            IF Truthy(m.operationsUsagePercent)
            THEN IF m.operationsUsagePercent > 90 THEN 15
                 ELSE IF m.operationsUsagePercent > 75 THEN 30
                 ELSE IF m.operationsUsagePercent > 50 THEN 5
                 ELSE 0
            ELSE 0
        errorPenalty == IF Truthy(m.errorRate) THEN Min(m.errorRate * 2, 40) ELSE 0
        base == 100 - usagePenalty - errorPenalty
        t == m.totalScenarios
        i == m.inactiveScenarios
    IN  IF i > 0 /\ t > 0
        THEN IF 50 * i >= 15 * t
             THEN Max(0, base - 15)
             ELSE Max(0, (2 * t * base - 100 * i + t) \div (2 * t))
        ELSE Max(0, base)

calculateHealthScore(m) ==
    LET usagePenalty ==
            IF Truthy(m.operationsUsagePercent)
            THEN IF m.operationsUsagePercent > 90 THEN 30
                 ELSE IF m.operationsUsagePercent > 75 THEN 15
                 ELSE IF m.operationsUsagePercent > 50 THEN 5
                 ELSE 0
            ELSE 0
        errorPenalty == IF Truthy(m.errorRate) THEN Min(m.errorRate * 2, 40) ELSE 0
        base == 100 - usagePenalty - errorPenalty
        t == m.totalScenarios
        i == m.inactiveScenarios
    IN  IF i > 0 /\ t > 0
        THEN IF 50 * i >= 15 * t
             THEN Max(0, base - 15)
             \* Math.round(base - 50*i/t)
             ELSE Max(0, (2 * t * base - 100 * i + t) \div (2 * t))
        ELSE Max(0, base)

\* The fields of the metric set that no code reads (version, url, planName,
\* teamName) are left out; the timestamp is kept in milliseconds, as
\* new Date(timestamp).getTime() reads it back from the ISO string.
extractMakeMetrics(p) ==
    LET listOrCount == IF p.scenarioRows # 0 THEN p.scenarioRows ELSE p.scenarioCount
        total == IF Truthy(listOrCount) THEN listOrCount ELSE 0
        m0 == [platform |-> "make",
               timestamp |-> now,
               operationsUsed |-> p.opsUsed,
               operationsLimit |-> p.opsLimit,
               totalScenarios |-> total,
               activeScenarios |-> p.active,
               errorScenarios |-> p.error,
               inactiveScenarios |-> p.inactive,
               operationsUsagePercent |->
                   IF Truthy(p.opsUsed) /\ Truthy(p.opsLimit)
                   THEN Round(p.opsUsed * 100, p.opsLimit) ELSE Null,
               errorRate |-> IF total > 0 THEN Round(p.error * 100, total) ELSE Null,
               healthScore |-> Null]
    IN  [m0 EXCEPT !.healthScore = calculateHealthScore(m0)]

\* the thresholds taken as strict
getScoreColor_Strict(score) ==
    IF score > 80 THEN "#22c55e"
    ELSE IF score > 60 THEN "#eab308"
    ELSE IF score > 40 THEN "#f97316"
    ELSE "#ef4444"

getScoreColor(score) ==
    IF score >= 80 THEN "#22c55e"
    ELSE IF score >= 60 THEN "#eab308"
    ELSE IF score >= 40 THEN "#f97316"
    ELSE "#ef4444"

-----------------------------------------------------------------------------
(* Retry / poll controller: init, tryExtract, poll, urlObserver *)

hasData(m) == m.totalScenarios > 0 \/ m.operationsUsed # Null

\* one attempt too many before giving up
TryExtractDone_Late(m, a) == hasData(m) \/ a > maxAttempts

\* tryExtract's condition for reporting an outcome and returning true
TryExtractDone(m, a) == hasData(m) \/ a >= maxAttempts

\* the backoff without its cap
NextPollDelay_NoCap(d) == (3 * d) \div 2

NextPollDelay(d) ==
    IF 3 * d >= 2 * MaxPollDelay THEN MaxPollDelay ELSE (3 * d) \div 2

Timer(d, s) == [fn |-> "poll", delay |-> d, stale |-> s]

\* setTimeout(poll, d): the callback fires after every pending one that was
\* set earlier with a delay no longer than d; it may fire before or after
\* an earlier one with a longer delay, depending on how long ago that was set.
Schedule(ts, t) ==
    { [j \in 1..(Len(ts) + 1) |->
          IF j < k THEN ts[j] ELSE IF j = k THEN t ELSE ts[j - 1]] :
      k \in { k \in 1..(Len(ts) + 1) :
                \A j \in k..Len(ts) : ts[j].delay > t.delay } }

NoMsg == [type |-> "none"]

\* history record of a step: the operation, whether it ran an extraction
\* attempt, whether the callback that ran had been superseded by a Reset,
\* whether tryExtract returned true, whether document.body was mutated with
\* location.href changed since the previous mutation, the message the coordinator handled with its sender tab, and the
\* payload passed to sendResponse; for the coordinator's listener whether it
\* returned true, for analyzeCurrentTab the kind of the active tab, and for a
\* delivery what the content script answered.
EvNone == [op |-> "none", ran |-> FALSE, stale |-> FALSE, done |-> FALSE, nav |-> FALSE,
           msg |-> NoMsg, tab |-> 0, response |-> "none",
           keepOpen |-> FALSE, active |-> "", reply |-> "none"]

\* 5 * 60 * 1000 ms, the age from which isRecent rejects a snapshot
RecentWindow == 5 * 60 * 1000

\* The instants at which the clock is read.
Times == {0, 1, RecentWindow - 1, RecentWindow, RecentWindow + 1}

\* The popup before DOMContentLoaded: where its handler stands, the platform
\* of the active tab, the snapshot read from chrome.storage.local, the state
\* shown and the message sent.
PopupClosed ==
    [pc |-> "closed", platform |-> "none", stored |-> NoMetrics, view |-> "loading",
     sent |-> "none"]

NoProbe == [m |-> NoMetrics, score |-> Null]

NoCall == [fn |-> "none"]

Init ==
    /\ pc = "loading"
    /\ attempts = 0
    /\ pollDelay = Null
    /\ timers = <<>>
    /\ observing = FALSE
    /\ lastUrl = "null"
    /\ href \in Urls
    /\ dom \in Pages
    /\ storage = NoMetrics
    /\ pageBadge = NoMetrics
    /\ outbox = <<>>
    /\ metricsStore = [zapier |-> NoMetrics, make |-> NoMetrics]
    /\ badgeText = [t \in Tabs |-> Null]
    /\ badgeColor = [t \in Tabs |-> "default"]
    /\ analyze = "idle"
    /\ navigated = FALSE
    /\ seenUrl = href
    /\ ev = EvNone
    /\ now = 0
    /\ popup = PopupClosed
    /\ probe = NoProbe
    /\ reported = FALSE
    /\ call = NoCall

-----------------------------------------------------------------------------
(* Actions of the extractor context *)

Send(msg) ==
    /\ Len(outbox) < MaxInFlight
    /\ outbox' = Append(outbox, msg)

MarkStale(ts) == [j \in DOMAIN ts |-> [ts[j] EXCEPT !.stale = TRUE]]

\* exhaustion reported like a success
TryExtractReport_NoFailure(m, a) ==
    IF TryExtractDone(m, a)
    THEN /\ storage' = m
         /\ pageBadge' = m
         /\ Send([type |-> "METRICS_EXTRACTED", metrics |-> m])
    ELSE UNCHANGED <<storage, pageBadge, outbox>>

\* exhaustion dropping the cached snapshot
TryExtractReport_ClearsOnExhaustion(m, a) ==
    IF hasData(m)
    THEN /\ storage' = m
         /\ pageBadge' = m
         /\ Send([type |-> "METRICS_EXTRACTED", metrics |-> m])
    ELSE IF TryExtractDone(m, a)
    THEN /\ Send([type |-> "METRICS_EXTRACTION_FAILED", url |-> href])
         /\ storage' = NoMetrics
         /\ UNCHANGED pageBadge
    ELSE UNCHANGED <<storage, pageBadge, outbox>>

\* The body of tryExtract, from the counter value a it has just written:
\* what it stores, shows and sends.
TryExtractReport(m, a) ==
    IF hasData(m)
    THEN /\ storage' = m
         /\ pageBadge' = m
         /\ Send([type |-> "METRICS_EXTRACTED", metrics |-> m])
    ELSE IF TryExtractDone(m, a)
    THEN /\ Send([type |-> "METRICS_EXTRACTION_FAILED", url |-> href])
         /\ UNCHANGED <<storage, pageBadge>>
    ELSE UNCHANGED <<storage, pageBadge, outbox>>

\* init(): the first attempt; on failure the poll loop and the urlObserver are set up.
init ==
    /\ pc = "loading"
    /\ pc' = "running"
    /\ LET a == attempts + 1
           m == extractMakeMetrics(dom)
       IN  /\ attempts' = a
           /\ TryExtractReport(m, a)
           /\ IF TryExtractDone(m, a)
              THEN UNCHANGED <<pollDelay, timers, observing, lastUrl>>
              ELSE /\ pollDelay' = InitialPollDelay
                   /\ timers' \in Schedule(timers, Timer(InitialPollDelay, FALSE))
                   /\ lastUrl' = href
                   /\ observing' = TRUE
           /\ reported' = TryExtractDone(m, a)
           /\ ev' = [EvNone EXCEPT !.op = "init", !.ran = TRUE,
                                   !.done = TryExtractDone(m, a)]
    /\ UNCHANGED <<href, dom, navigated, seenUrl>>
    /\ UNCHANGED coordVars
    /\ UNCHANGED auxVars

\* tryExtract never advancing the attempt counter
poll_NoCount ==
    /\ timers # <<>>
    /\ LET t == Head(timers)
           rest == Tail(timers)
           a == attempts
           m == extractMakeMetrics(dom)
       IN  /\ TryExtractReport(m, a)
           /\ IF TryExtractDone(m, a)
              THEN /\ UNCHANGED pollDelay
                   /\ IF hasData(m) /\ observing /\ href # lastUrl
                      THEN /\ lastUrl' = href
                           /\ attempts' = 0
                           /\ reported' = FALSE
                           /\ timers' \in Schedule(MarkStale(rest), Timer(SettleDelay, FALSE))
                      ELSE /\ attempts' = a
                           /\ reported' = TRUE
                           /\ timers' = rest
                           /\ UNCHANGED lastUrl
              ELSE /\ attempts' = a
                   /\ pollDelay' = NextPollDelay(pollDelay)
                   /\ timers' \in Schedule(rest, Timer(NextPollDelay(pollDelay), t.stale))
                   /\ UNCHANGED <<lastUrl, reported>>
           /\ seenUrl' = IF hasData(m) THEN href ELSE seenUrl
           /\ ev' = [EvNone EXCEPT !.op = "poll", !.ran = TRUE, !.stale = t.stale,
                                   !.done = TryExtractDone(m, a),
                                   !.nav = (hasData(m) /\ href # seenUrl)]
    /\ UNCHANGED <<pc, observing, href, dom, navigated>>
    /\ UNCHANGED coordVars
    /\ UNCHANGED auxVars

\* poll(): the oldest pending callback fires. A successful attempt injects
\* the badge into document.body, which the urlObserver sees right after the
\* callback returns.
poll ==
    /\ timers # <<>>
    /\ LET t == Head(timers)
           rest == Tail(timers)
           a == attempts + 1
           m == extractMakeMetrics(dom)
       IN  /\ TryExtractReport(m, a)
           /\ IF TryExtractDone(m, a)
              THEN /\ UNCHANGED pollDelay
                   /\ IF hasData(m) /\ observing /\ href # lastUrl
                      THEN /\ lastUrl' = href
                           /\ attempts' = 0
                           /\ reported' = FALSE
                           /\ timers' \in Schedule(MarkStale(rest), Timer(SettleDelay, FALSE))
                      ELSE /\ attempts' = a
                           /\ reported' = TRUE
                           /\ timers' = rest
                           /\ UNCHANGED lastUrl
              ELSE /\ attempts' = a
                   /\ pollDelay' = NextPollDelay(pollDelay)
                   /\ timers' \in Schedule(rest, Timer(NextPollDelay(pollDelay), t.stale))
                   /\ UNCHANGED <<lastUrl, reported>>
           /\ seenUrl' = IF hasData(m) THEN href ELSE seenUrl
           /\ ev' = [EvNone EXCEPT !.op = "poll", !.ran = TRUE, !.stale = t.stale,
                                   !.done = TryExtractDone(m, a),
                                   !.nav = (hasData(m) /\ href # seenUrl)]
    /\ UNCHANGED <<pc, observing, href, dom, navigated>>
    /\ UNCHANGED coordVars
    /\ UNCHANGED auxVars

\* The page's own router changes location.href without a reload.
Navigate ==
    /\ pc = "running"
    /\ Len(timers) < MaxTimers
    /\ href' \in Urls \ {href}
    /\ navigated' = TRUE
    /\ ev' = [EvNone EXCEPT !.op = "navigate"]
    /\ UNCHANGED <<dom, outbox, seenUrl>>
    /\ UNCHANGED extractorVars
    /\ UNCHANGED coordVars
    /\ UNCHANGED auxVars

\* The page mutates document.body; the urlObserver callback, if installed, runs.
PageMutation ==
    /\ dom' \in Pages
    /\ IF observing /\ href # lastUrl
       THEN /\ lastUrl' = href
            /\ attempts' = 0
            /\ reported' = FALSE
            /\ timers' \in Schedule(MarkStale(timers), Timer(SettleDelay, FALSE))
       ELSE UNCHANGED <<lastUrl, attempts, timers, reported>>
    /\ seenUrl' = href
    /\ ev' = [EvNone EXCEPT !.op = "mutation", !.nav = (href # seenUrl)]
    /\ UNCHANGED <<pc, pollDelay, observing, storage, pageBadge, href, outbox, navigated>>
    /\ UNCHANGED coordVars
    /\ UNCHANGED auxVars

\* The user clicks the injected badge.
BadgeClick ==
    /\ pageBadge # NoMetrics
    /\ Send([type |-> "OPEN_POPUP", metrics |-> pageBadge])
    /\ ev' = [EvNone EXCEPT !.op = "click"]
    /\ UNCHANGED <<href, dom, navigated, seenUrl>>
    /\ UNCHANGED extractorVars
    /\ UNCHANGED coordVars
    /\ UNCHANGED auxVars

-----------------------------------------------------------------------------
(* Actions of the coordinator: chrome.runtime.onMessage listener *)

\* handleMetricsExtracted(metrics, tab); the badge text score.toString() is
\* kept as the number it renders.
handleMetricsExtracted(metrics, tab) ==
    IF metrics = NoMetrics
    THEN UNCHANGED <<metricsStore, badgeText, badgeColor>>
    ELSE LET score == IF Truthy(metrics.healthScore) THEN metrics.healthScore ELSE 0
         IN  /\ metricsStore' = [metricsStore EXCEPT ![metrics.platform] = metrics]
             /\ badgeText' = [badgeText EXCEPT ![tab] = score]
             /\ badgeColor' = [badgeColor EXCEPT ![tab] = getScoreColor(score)]

\* the listener returning true whatever the message
KeepChannelOpen_Always(type) == TRUE

\* The listener's return value: true only from case 'ANALYZE_TAB'.
KeepChannelOpen(type) == type = "ANALYZE_TAB"

Received(msg, tab) ==
    [EvNone EXCEPT !.op = "recv", !.msg = msg, !.tab = tab,
                   !.keepOpen = KeepChannelOpen(msg.type)]

\* case 'METRICS_EXTRACTED', sent by the Make tab
OnMetricsExtracted ==
    /\ outbox # <<>>
    /\ Head(outbox).type = "METRICS_EXTRACTED"
    /\ handleMetricsExtracted(Head(outbox).metrics, MakeTab)
    /\ outbox' = Tail(outbox)
    /\ ev' = Received(Head(outbox), MakeTab)
    /\ UNCHANGED <<href, dom, navigated, seenUrl, analyze>>
    /\ UNCHANGED extractorVars
    /\ UNCHANGED auxVars

\* OPEN_POPUP handled like METRICS_EXTRACTED
OnOpenPopup_UpdatesBadge ==
    /\ outbox # <<>>
    /\ Head(outbox).type = "OPEN_POPUP"
    /\ handleMetricsExtracted(Head(outbox).metrics, MakeTab)
    /\ outbox' = Tail(outbox)
    /\ ev' = Received(Head(outbox), MakeTab)
    /\ UNCHANGED <<href, dom, navigated, seenUrl, analyze>>
    /\ UNCHANGED extractorVars
    /\ UNCHANGED auxVars

\* case 'OPEN_POPUP'
OnOpenPopup ==
    /\ outbox # <<>>
    /\ Head(outbox).type = "OPEN_POPUP"
    /\ IF Head(outbox).metrics # NoMetrics
       THEN metricsStore' =
                [metricsStore EXCEPT ![Head(outbox).metrics.platform] = Head(outbox).metrics]
       ELSE UNCHANGED metricsStore
    /\ outbox' = Tail(outbox)
    /\ ev' = Received(Head(outbox), MakeTab)
    /\ UNCHANGED <<href, dom, navigated, seenUrl, badgeText, badgeColor, analyze>>
    /\ UNCHANGED extractorVars
    /\ UNCHANGED auxVars

\* a message type the switch has no case for
OnUnhandled ==
    /\ outbox # <<>>
    /\ Head(outbox).type \notin {"METRICS_EXTRACTED", "GET_METRICS", "OPEN_POPUP", "ANALYZE_TAB"}
    /\ outbox' = Tail(outbox)
    /\ ev' = Received(Head(outbox), MakeTab)
    /\ UNCHANGED <<href, dom, navigated, seenUrl>>
    /\ UNCHANGED extractorVars
    /\ UNCHANGED coordVars
    /\ UNCHANGED auxVars

\* The metric sets the Zapier content script reports.
ZapierMetrics == { [platform |-> "zapier", healthScore |-> s] : s \in {79, 59, 39} }

\* case 'METRICS_EXTRACTED', sent by the Zapier tab
OnZapierMetricsExtracted ==
    /\ \E m \in ZapierMetrics :
          /\ handleMetricsExtracted(m, ZapierTab)
          /\ ev' = Received([type |-> "METRICS_EXTRACTED", metrics |-> m], ZapierTab)
    /\ UNCHANGED <<href, dom, navigated, seenUrl, outbox, analyze>>
    /\ UNCHANGED extractorVars
    /\ UNCHANGED auxVars

\* case 'GET_METRICS', sent by the summary view: sendResponse(metricsStore)
OnGetMetrics ==
    /\ ev' = [Received([type |-> "GET_METRICS"], 0) EXCEPT !.response = "metricsStore"]
    /\ UNCHANGED <<href, dom, navigated, seenUrl, outbox>>
    /\ UNCHANGED extractorVars
    /\ UNCHANGED coordVars
    /\ UNCHANGED auxVars

\* case 'ANALYZE_TAB', sent by the popup: analyzeCurrentTab starts and awaits
\* chrome.tabs.query
OnAnalyzeTab ==
    /\ analyze = "idle"
    /\ analyze' = "query"
    /\ ev' = Received([type |-> "ANALYZE_TAB"], 0)
    /\ UNCHANGED <<href, dom, navigated, seenUrl, outbox, metricsStore, badgeText, badgeColor>>
    /\ UNCHANGED extractorVars
    /\ UNCHANGED auxVars

Respond(r) == [EvNone EXCEPT !.op = "respond", !.response = r]

\* the platform test left out
analyzeCurrentTab_NoPlatformCheck(active) ==
    IF active = "none"
    THEN [response |-> "error: No active tab", sendTo |-> 0]
    ELSE [response |-> "none", sendTo |-> IF active = "zapier" THEN ZapierTab ELSE MakeTab]

\* analyzeCurrentTab up to chrome.tabs.sendMessage, from the kind of the
\* active tab: the payload it answers with, or the tab it sends
\* EXTRACT_METRICS to.
analyzeCurrentTab(active) ==
    IF active = "none"
    THEN [response |-> "error: No active tab", sendTo |-> 0]
    ELSE IF active \notin {"zapier", "make"}
    THEN [response |-> "error: Not on a supported platform", sendTo |-> 0]
    ELSE [response |-> "none", sendTo |-> IF active = "zapier" THEN ZapierTab ELSE MakeTab]

\* analyzeCurrentTab after chrome.tabs.query resolved
AnalyzeQueried ==
    /\ analyze = "query"
    /\ \E active \in {"none", "other", "make", "zapier"} :
          LET r == analyzeCurrentTab(active)
          IN  IF r.sendTo = 0
              THEN /\ analyze' = "idle"
                   /\ ev' = [Respond(r.response) EXCEPT !.active = active]
              ELSE /\ analyze' = IF r.sendTo = MakeTab THEN "sent" ELSE "sentZapier"
                   /\ ev' = [EvNone EXCEPT !.op = "tabs.sendMessage", !.active = active,
                                           !.msg = [type |-> "EXTRACT_METRICS"],
                                           !.tab = r.sendTo]
    /\ UNCHANGED <<href, dom, navigated, seenUrl, outbox, metricsStore, badgeText, badgeColor>>
    /\ UNCHANGED extractorVars
    /\ UNCHANGED auxVars

\* EXTRACT_METRICS reaches the Make tab. make.js registers no
\* chrome.runtime.onMessage listener, so nothing runs there, the promise of
\* chrome.tabs.sendMessage rejects and analyzeCurrentTab's catch responds.
DeliverExtractMetrics ==
    /\ analyze = "sent"
    /\ analyze' = "idle"
    /\ ev' = [EvNone EXCEPT !.op = "EXTRACT_METRICS", !.ran = FALSE,
                            !.msg = [type |-> "EXTRACT_METRICS"], !.tab = MakeTab,
                            !.response = "error: delivery failed"]
    /\ UNCHANGED <<href, dom, navigated, seenUrl, outbox, metricsStore, badgeText, badgeColor>>
    /\ UNCHANGED extractorVars
    /\ UNCHANGED auxVars

\* What the Zapier content script answers to EXTRACT_METRICS.
ZapierReplies == {"metrics", "failure marker"}

\* EXTRACT_METRICS reaches the Zapier tab: its content script answers and
\* analyzeCurrentTab relays the answer, or the tab is gone and the catch responds.
DeliverExtractMetricsZapier ==
    /\ analyze = "sentZapier"
    /\ analyze' = "idle"
    /\ \E r \in ZapierReplies \cup {"none"} :
          ev' = [EvNone EXCEPT !.op = "EXTRACT_METRICS", !.ran = (r # "none"),
                               !.msg = [type |-> "EXTRACT_METRICS"], !.tab = ZapierTab,
                               !.reply = r,
                               !.response = IF r = "none" THEN "error: delivery failed" ELSE r]
    /\ UNCHANGED <<href, dom, navigated, seenUrl, outbox, metricsStore, badgeText, badgeColor>>
    /\ UNCHANGED extractorVars
    /\ UNCHANGED auxVars

\* The messages the Make content script can send (tryExtract, the badge's click handler).
MakeMessages ==
    LET ms == { extractMakeMetrics(p) : p \in Pages \cup BoundaryPages }
    IN  { [type |-> "METRICS_EXTRACTED", metrics |-> m] : m \in { m \in ms : hasData(m) } }
        \cup { [type |-> "OPEN_POPUP", metrics |-> m] : m \in { m \in ms : hasData(m) } }
        \cup { [type |-> "METRICS_EXTRACTION_FAILED", url |-> u] : u \in Urls }

\* The Make tab's content script sends one of its messages.
MakeTabSends ==
    /\ \E msg \in MakeMessages : Send(msg)
    /\ ev' = [EvNone EXCEPT !.op = "send"]
    /\ UNCHANGED <<href, dom, navigated, seenUrl>>
    /\ UNCHANGED extractorVars
    /\ UNCHANGED coordVars
    /\ UNCHANGED auxVars

\* An extension context sends OPEN_POPUP with no metric set; the listener's
\* test of message.metrics is for this message.
OpenPopupWithoutMetrics ==
    /\ Send([type |-> "OPEN_POPUP", metrics |-> NoMetrics])
    /\ ev' = [EvNone EXCEPT !.op = "send"]
    /\ UNCHANGED <<href, dom, navigated, seenUrl>>
    /\ UNCHANGED extractorVars
    /\ UNCHANGED coordVars
    /\ UNCHANGED auxVars

-----------------------------------------------------------------------------
(* The popup *)

\* a snapshot aged exactly five minutes still counted as recent
isRecent_Inclusive(timestamp) ==
    IF timestamp = Null THEN FALSE ELSE now - timestamp <= RecentWindow

\* isRecent(timestamp); the timestamp is an ISO string or missing, so only a
\* missing one is falsy.
isRecent(timestamp) ==
    IF timestamp = Null THEN FALSE ELSE now - timestamp < RecentWindow

PopupStep(op) == [EvNone EXCEPT !.op = op]

\* Time passes.
Tick ==
    /\ \E t \in Times : t > now /\ now' = t
    /\ ev' = PopupStep("tick")
    /\ UNCHANGED <<href, dom, navigated, seenUrl, outbox, popup, probe, call>>
    /\ UNCHANGED extractorVars
    /\ UNCHANGED coordVars

\* tryExtract succeeds on the Make tab: chrome.storage.local.set({ makeMetrics })
ContentScriptStores ==
    /\ \E p \in Pages :
          /\ hasData(extractMakeMetrics(p))
          /\ storage' = extractMakeMetrics(p)
    /\ ev' = PopupStep("storage.set")
    /\ UNCHANGED <<href, dom, navigated, seenUrl, outbox>>
    /\ UNCHANGED <<pc, attempts, pollDelay, timers, observing, lastUrl, pageBadge, reported>>
    /\ UNCHANGED coordVars
    /\ UNCHANGED auxVars

\* DOMContentLoaded up to the platform test, after chrome.tabs.query resolved
PopupOpen ==
    /\ popup.pc = "closed"
    /\ \E active \in {"none", "other", "make"} :
          popup' = IF active = "make"
                   THEN [popup EXCEPT !.pc = "get", !.platform = "make"]
                   ELSE [popup EXCEPT !.pc = "done", !.view = "no-platform"]
    /\ ev' = PopupStep("popup open")
    /\ UNCHANGED <<href, dom, navigated, seenUrl, outbox, now, probe, call>>
    /\ UNCHANGED extractorVars
    /\ UNCHANGED coordVars

\* DOMContentLoaded after chrome.storage.local.get resolved: the cached
\* snapshot is displayed, or requestMetrics sends ANALYZE_TAB.
PopupLoad ==
    /\ popup.pc = "get"
    /\ popup' = IF storage # NoMetrics /\ isRecent(storage.timestamp)
                THEN [popup EXCEPT !.pc = "done", !.stored = storage, !.view = "metrics"]
                ELSE [popup EXCEPT !.pc = "requesting", !.stored = storage,
                                   !.sent = "ANALYZE_TAB"]
    /\ ev' = PopupStep("popup load")
    /\ UNCHANGED <<href, dom, navigated, seenUrl, outbox, now, probe, call>>
    /\ UNCHANGED extractorVars
    /\ UNCHANGED coordVars

\* requestMetrics after the response to ANALYZE_TAB arrived
PopupResponse ==
    /\ popup.pc = "requesting"
    /\ \E r \in {"error", "metrics", "none"} :
          /\ popup' = CASE r = "error" -> [popup EXCEPT !.pc = "done", !.view = "no-platform"]
                        [] r = "metrics" -> [popup EXCEPT !.pc = "done", !.view = "metrics"]
                        [] OTHER -> [popup EXCEPT !.pc = "fallback"]
          /\ ev' = [PopupStep("popup response") EXCEPT !.response = r]
    /\ UNCHANGED <<href, dom, navigated, seenUrl, outbox, now, probe, call>>
    /\ UNCHANGED extractorVars
    /\ UNCHANGED coordVars

\* requestMetrics' 2000 ms timer: whatever is stored is displayed
PopupFallback ==
    /\ popup.pc = "fallback"
    /\ popup' = [popup EXCEPT !.pc = "done", !.stored = storage,
                              !.view = IF storage # NoMetrics THEN "metrics" ELSE "no-platform"]
    /\ ev' = PopupStep("popup fallback")
    /\ UNCHANGED <<href, dom, navigated, seenUrl, outbox, now, probe, call>>
    /\ UNCHANGED extractorVars
    /\ UNCHANGED coordVars

\* click on analyze-btn, whose listener exists once the handler ran to its end
PopupReanalyze ==
    /\ popup.pc = "done"
    /\ popup.platform # "none"
    /\ popup' = [popup EXCEPT !.pc = "requesting", !.view = "loading", !.sent = "ANALYZE_TAB"]
    /\ ev' = PopupStep("popup reanalyze")
    /\ UNCHANGED <<href, dom, navigated, seenUrl, outbox, now, probe, call>>
    /\ UNCHANGED extractorVars
    /\ UNCHANGED coordVars

\* The popup is closed; opening it again runs the handler anew.
PopupClose ==
    /\ popup.pc = "done"
    /\ popup' = PopupClosed
    /\ ev' = PopupStep("popup close")
    /\ UNCHANGED <<href, dom, navigated, seenUrl, outbox, now, probe, call>>
    /\ UNCHANGED extractorVars
    /\ UNCHANGED coordVars

-----------------------------------------------------------------------------
(* The health scorer on its own *)

\* The values of the fields calculateHealthScore reads; Null is a field left null.
UsagePercents == {Null, 0, 50, 51, 75, 76, 90, 91, 100, 150}
ErrorRates == {Null, 0, 1, 19, 20, 21, 100}
Totals == {Null, 0, 1, 3, 15}
Inactives == {Null, 0, 1, 3, 4, 20}

\* The metric sets handed to the scorer.
ProbeInputs ==
    { [platform |-> pf, operationsUsagePercent |-> u, errorRate |-> e,
       totalScenarios |-> t, inactiveScenarios |-> i] :
        pf \in {"make", "zapier"}, u \in UsagePercents, e \in ErrorRates,
        t \in Totals, i \in Inactives }

\* The content script loaded, with a metric set about to be scored.
ScoreInit ==
    /\ pc = "loading"
    /\ attempts = 0
    /\ pollDelay = Null
    /\ timers = <<>>
    /\ observing = FALSE
    /\ lastUrl = "null"
    /\ href = "make.com/a"
    /\ dom = Page(0, Null, Null, Null, 0, 0, 0)
    /\ storage = NoMetrics
    /\ pageBadge = NoMetrics
    /\ outbox = <<>>
    /\ metricsStore = [zapier |-> NoMetrics, make |-> NoMetrics]
    /\ badgeText = [t \in Tabs |-> Null]
    /\ badgeColor = [t \in Tabs |-> "default"]
    /\ analyze = "idle"
    /\ navigated = FALSE
    /\ seenUrl = href
    /\ ev = EvNone
    /\ now = 0
    /\ popup = PopupClosed
    /\ \E m \in ProbeInputs : probe = [m |-> m, score |-> Null]
    /\ reported = FALSE
    /\ call = NoCall

\* metrics.healthScore = calculateHealthScore(metrics)
ProbeScore ==
    /\ probe.m # NoMetrics
    /\ probe.score = Null
    /\ probe' = [probe EXCEPT !.score = calculateHealthScore(probe.m)]
    /\ ev' = [EvNone EXCEPT !.op = "score"]
    /\ UNCHANGED <<href, dom, navigated, seenUrl, outbox, now, popup, call>>
    /\ UNCHANGED extractorVars
    /\ UNCHANGED coordVars

-----------------------------------------------------------------------------
(* The lookup functions on their own *)

\* Bounds of the lookups' inputs
MaxChain == 3       \* selectors passed to queryFirst / queryAllFirst

\* the result of a call that has not run yet
Pending == [pending |-> TRUE]

\* What document.querySelectorAll makes of one selector: it throws on a
\* malformed one, or returns the matching elements in document order.
SelectorOutcomes ==
    { [valid |-> FALSE, els |-> <<>>],
      [valid |-> TRUE, els |-> <<>>],
      [valid |-> TRUE, els |-> <<1>>],
      [valid |-> TRUE, els |-> <<2, 3>>] }

Chains == UNION { [1..n -> SelectorOutcomes] : n \in 0..MaxChain }

\* a malformed selector ending the chain
queryFirst_AbortOnInvalid(selectors) ==
    LET n == Len(selectors)
        scan[i \in 1..(n + 1)] ==
            IF i > n THEN [el |-> Null, consulted |-> n]
            ELSE IF ~selectors[i].valid THEN [el |-> Null, consulted |-> i]
            ELSE IF selectors[i].els # <<>>
            THEN [el |-> selectors[i].els[1], consulted |-> i]
            ELSE scan[i + 1]
    IN  scan[1]

\* queryFirst(...selectors): the element returned and the number of selectors
\* evaluated; querySelector gives the first match in document order.
queryFirst(selectors) ==
    LET n == Len(selectors)
        scan[i \in 1..(n + 1)] ==
            IF i > n THEN [el |-> Null, consulted |-> n]
            ELSE IF selectors[i].valid /\ selectors[i].els # <<>>
            THEN [el |-> selectors[i].els[1], consulted |-> i]
            ELSE scan[i + 1]
    IN  scan[1]

\* queryAllFirst(...selectors): the list returned and the number of selectors evaluated
queryAllFirst(selectors) ==
    LET n == Len(selectors)
        scan[i \in 1..(n + 1)] ==
            IF i > n THEN [els |-> <<>>, consulted |-> n]
            ELSE IF selectors[i].valid /\ Len(selectors[i].els) > 0
            THEN [els |-> selectors[i].els, consulted |-> i]
            ELSE scan[i + 1]
    IN  scan[1]

MaxEls == 3         \* status elements on a page

\* countScenariosByStatus: statusMap[status] || [status]
Terms(status) ==
    CASE status = "active" -> <<"active", "on", "running", "enabled", "scheduling">>
      [] status = "error" -> <<"error", "failed", "broken", "warning">>
      [] status = "inactive" -> <<"inactive", "off", "disabled", "stopped", "paused">>
      [] OTHER -> <<status>>

\* An element as the selectors of countScenariosByStatus see it: its
\* data-status attribute, whether it has role="status", whether its class
\* contains "status", the terms its aria-label and its text contain, and
\* aria-checked if it is a switch.
Element(ds, role, cls, aria, text, sw) ==
    [dataStatus |-> ds, role |-> role, cls |-> cls, aria |-> aria, text |-> text,
     switch |-> sw]

ElementKinds ==
    { Element("active", FALSE, FALSE, {}, {}, "none"),
      Element("running", FALSE, FALSE, {}, {}, "none"),
      Element("error", FALSE, FALSE, {}, {}, "none"),
      Element("", TRUE, FALSE, {"active", "running"}, {}, "none"),
      Element("", FALSE, TRUE, {}, {"running", "on"}, "none"),
      Element("", FALSE, TRUE, {}, {"paused"}, "none"),
      Element("", FALSE, FALSE, {}, {}, "true"),
      Element("", FALSE, FALSE, {}, {}, "false") }

\* The elements of a page in document order
Documents == UNION { [1..n -> ElementKinds] : n \in 0..MaxEls }

\* document.querySelectorAll for a selector that holds of the elements in kinds
Matches(doc, kinds) ==
    LET Hit(i) == doc[i] \in kinds
    IN  [valid |-> TRUE, els |-> SelectSeq([i \in 1..Len(doc) |-> i], Hit)]

\* strategy 2 counting an element once for every term it contains
CountByText_PerSynonym(doc, statusEls, terms) ==
    LET hits(i) == Cardinality({ k \in DOMAIN terms :
                                   terms[k] \in doc[statusEls[i]].text \cup doc[statusEls[i]].aria })
        sum[i \in 0..Len(statusEls)] == IF i = 0 THEN 0 ELSE sum[i - 1] + hits(i)
    IN  sum[Len(statusEls)]

\* countScenariosByStatus, strategy 2: the loop over statusEls with
\* terms.some(t => combined.includes(t))
CountByText(doc, statusEls, terms) ==
    LET hit(i) == \E k \in DOMAIN terms :
                     terms[k] \in doc[statusEls[i]].text \cup doc[statusEls[i]].aria
        sum[i \in 0..Len(statusEls)] ==
            IF i = 0 THEN 0 ELSE sum[i - 1] + (IF hit(i) THEN 1 ELSE 0)
    IN  sum[Len(statusEls)]

\* countScenariosByStatus(status) on a page: the count returned and the
\* strategy it came from (0 for the final return 0).
countScenariosByStatus(doc, status) ==
    LET terms == Terms(status)
        None == {}
        \* strategy 1 for one term
        byHook(term) ==
            LET DataStatus == { e \in ElementKinds : e.dataStatus = term }
                AriaStatus == { e \in ElementKinds : e.role /\ term \in e.aria }
            IN  queryAllFirst(<<Matches(doc, None), Matches(doc, DataStatus),
                                Matches(doc, AriaStatus)>>).els
        firstHook[k \in 1..(Len(terms) + 1)] ==
            IF k > Len(terms) THEN 0
            ELSE IF Len(byHook(terms[k])) > 0 THEN Len(byHook(terms[k]))
            ELSE firstHook[k + 1]
        Cls == { e \in ElementKinds : e.cls }
        Role == { e \in ElementKinds : e.role }
        statusEls == queryAllFirst(<<Matches(doc, None), Matches(doc, Cls), Matches(doc, Cls),
                                     Matches(doc, Role), Matches(doc, None),
                                     Matches(doc, None)>>).els
        count == CountByText(doc, statusEls, terms)
        Checked == { e \in ElementKinds : e.switch = "true" }
        Unchecked == { e \in ElementKinds : e.switch = "false" }
    IN  IF firstHook[1] > 0 THEN [count |-> firstHook[1], strategy |-> 1]
        ELSE IF count > 0 THEN [count |-> count, strategy |-> 2]
        ELSE IF status = "active"
        THEN [count |-> Len(queryAllFirst(<<Matches(doc, Checked), Matches(doc, None)>>).els),
              strategy |-> 3]
        ELSE IF status = "inactive"
        THEN [count |-> Len(queryAllFirst(<<Matches(doc, Unchecked), Matches(doc, None)>>).els),
              strategy |-> 3]
        ELSE [count |-> 0, strategy |-> 0]

MaxText == 4        \* characters of a text handed to extractNumber

Digits == {"1", "2"}

\* The characters of an element's text: digits, the grouping comma, the
\* period, the percent sign, a letter and a space.
Alphabet == Digits \cup {",", ".", "%", "a", " "}

Texts == UNION { [1..n -> Alphabet] : n \in 0..MaxText }

\* the length of the longest prefix of s made of digits
LeadingDigits(s) ==
    CHOOSE n \in 0..Len(s) :
        /\ \A k \in 1..n : s[k] \in Digits
        /\ n < Len(s) => s[n + 1] \notin Digits

\* the number a sequence of digits denotes
DigitsValue(ds) ==
    LET val[i \in 0..Len(ds)] ==
            IF i = 0 THEN 0 ELSE 10 * val[i - 1] + (IF ds[i] = "1" THEN 1 ELSE 2)
    IN  val[Len(ds)]

\* parseFloat on a string of digits and periods: the longest prefix that is a
\* decimal literal, as num / 10^scale, or NaN when that prefix has no digit.
parseFloat(token) ==
    LET ni == LeadingDigits(token)
        rest == SubSeq(token, ni + 1, Len(token))
        nf == IF rest # <<>> /\ rest[1] = "." THEN LeadingDigits(Tail(rest)) ELSE 0
    IN  IF ni + nf = 0
        THEN [kind |-> "NaN"]
        ELSE [kind |-> "number",
              num |-> DigitsValue(SubSeq(token, 1, ni) \o SubSeq(token, ni + 2, ni + 1 + nf)),
              scale |-> nf]

\* extractNumber(text): commas and whitespace removed, the first match of
\* /[\d.]+/ handed to parseFloat.
extractNumber(text) ==
    IF text = <<>>
    THEN [kind |-> "null"]
    ELSE LET Kept(c) == c \notin {",", " "}
             cleaned == SelectSeq(text, Kept)
             Numeric(i) == cleaned[i] \in Digits \cup {"."}
             starts == { i \in DOMAIN cleaned : Numeric(i) }
         IN  IF starts = {}
             THEN [kind |-> "null"]
             ELSE LET b == CHOOSE i \in starts : \A j \in starts : i <= j
                      e == CHOOSE j \in b..Len(cleaned) :
                               /\ \A k \in b..j : Numeric(k)
                               /\ j < Len(cleaned) => ~Numeric(j + 1)
                  IN  parseFloat(SubSeq(cleaned, b, e))

\* Pages that show a usage widget and nothing else
UsagePages ==
    { Page(0, Null, used, lim, 0, 0, 0) :
        used \in {Null, 0, 1, 500, 1000, 1200}, lim \in {Null, 0, 1000} }

\* What one step of a usage chain finds: no element, or an element and the
\* number read from it (Null when its text or attribute holds none).
Absent == [found |-> FALSE, value |-> Null]
Found(v) == [found |-> TRUE, value |-> v]

\* The usage widget as the chains of extractOperationsUsed and
\* extractOperationsLimit see it: the data-testid element, the aria-label
\* element, the "X of Y" text near the word operations, the number
\* findValueNearLabel returns, and the progressbar with its aria-valuenow /
\* aria-valuemax.
UsageWidgets ==
    [hook : {Absent, Found(Null), Found(5)},
     aria : {Absent, Found(5)},
     ofText : {Null, 9},
     label : {Null, 6},
     bar : {Absent, Found(Null), Found(7)}]

\* extractOperationsUsed(): the value returned and the step it came from
extractOperationsUsed(w) ==
    IF w.hook.found THEN [value |-> w.hook.value, source |-> "data-testid"]
    ELSE IF w.aria.found THEN [value |-> w.aria.value, source |-> "aria-label"]
    ELSE IF w.label # Null THEN [value |-> w.label, source |-> "text"]
    ELSE IF w.bar.found /\ w.bar.value # Null
    THEN [value |-> w.bar.value, source |-> "progressbar"]
    ELSE [value |-> Null, source |-> "none"]

\* extractOperationsLimit(): the value returned and the step it came from
extractOperationsLimit(w) ==
    IF w.hook.found THEN [value |-> w.hook.value, source |-> "data-testid"]
    ELSE IF w.aria.found THEN [value |-> w.aria.value, source |-> "aria-label"]
    ELSE IF w.ofText # Null THEN [value |-> w.ofText, source |-> "text"]
    ELSE IF w.label # Null THEN [value |-> w.label, source |-> "text"]
    ELSE IF w.bar.found /\ w.bar.value # Null
    THEN [value |-> w.bar.value, source |-> "progressbar"]
    ELSE [value |-> Null, source |-> "none"]

\* The calls still to be made
LookupCalls ==
    { [fn |-> f, arg |-> c, result |-> Pending] :
        f \in {"queryFirst", "queryAllFirst"}, c \in Chains }
    \cup { [fn |-> "countScenariosByStatus", arg |-> [doc |-> d, status |-> st],
            result |-> Pending] :
            d \in Documents, st \in {"active", "error", "inactive"} }
    \cup { [fn |-> "extractNumber", arg |-> t, result |-> Pending] : t \in Texts }
    \cup { [fn |-> "extractMakeMetrics", arg |-> p, result |-> Pending] : p \in UsagePages }
    \cup { [fn |-> f, arg |-> w, result |-> Pending] :
            f \in {"extractOperationsUsed", "extractOperationsLimit"}, w \in UsageWidgets }

\* The content script loaded, with one lookup about to be applied.
LookupInit ==
    /\ pc = "loading"
    /\ attempts = 0
    /\ pollDelay = Null
    /\ timers = <<>>
    /\ observing = FALSE
    /\ lastUrl = "null"
    /\ href = "make.com/a"
    /\ dom = Page(0, Null, Null, Null, 0, 0, 0)
    /\ storage = NoMetrics
    /\ pageBadge = NoMetrics
    /\ outbox = <<>>
    /\ metricsStore = [zapier |-> NoMetrics, make |-> NoMetrics]
    /\ badgeText = [t \in Tabs |-> Null]
    /\ badgeColor = [t \in Tabs |-> "default"]
    /\ analyze = "idle"
    /\ navigated = FALSE
    /\ seenUrl = href
    /\ ev = EvNone
    /\ now = 0
    /\ popup = PopupClosed
    /\ probe = NoProbe
    /\ reported = FALSE
    /\ call \in LookupCalls

\* The frame of a lookup: nothing but the call changes.
Applied(fn, result) ==
    /\ call.fn = fn
    /\ call.result = Pending
    /\ call' = [call EXCEPT !.result = result]
    /\ ev' = [EvNone EXCEPT !.op = fn]
    /\ UNCHANGED <<href, dom, navigated, seenUrl, outbox, now, popup, probe>>
    /\ UNCHANGED extractorVars
    /\ UNCHANGED coordVars

CallQueryFirst == Applied("queryFirst", queryFirst(call.arg))

CallQueryAllFirst == Applied("queryAllFirst", queryAllFirst(call.arg))

CallExtractNumber == Applied("extractNumber", extractNumber(call.arg))

CallExtractMakeMetrics == Applied("extractMakeMetrics", extractMakeMetrics(call.arg))

CallExtractOperationsUsed ==
    Applied("extractOperationsUsed", extractOperationsUsed(call.arg))

CallExtractOperationsLimit ==
    Applied("extractOperationsLimit", extractOperationsLimit(call.arg))

CallCountScenariosByStatus ==
    Applied("countScenariosByStatus", countScenariosByStatus(call.arg.doc, call.arg.status))

-----------------------------------------------------------------------------
(* Specifications *)

\* The Make tab's content script together with the coordinator's handling of
\* what it sends.
Next ==
    \/ init
    \/ poll
    \/ Navigate
    \/ PageMutation
    \/ BadgeClick
    \/ OnMetricsExtracted
    \/ OnOpenPopup
    \/ OnUnhandled

Spec == Init /\ [][Next]_vars

\* The poll loop with the scheduling of the browser, the badge left
\* unclicked: a pending setTimeout callback fires, init runs at document_idle
\* and the service worker handles every message it is sent.
FairNext ==
    \/ init
    \/ poll
    \/ Navigate
    \/ PageMutation
    \/ OnMetricsExtracted
    \/ OnUnhandled

FairSpec ==
    /\ Init
    /\ [][FairNext]_vars
    /\ WF_vars(init)
    /\ WF_vars(poll)
    /\ WF_vars(OnMetricsExtracted)
    /\ WF_vars(OnUnhandled)

\* The coordinator alone, with the messages of both tabs and of the popup as inputs.
CoordNext ==
    \/ MakeTabSends
    \/ OpenPopupWithoutMetrics
    \/ OnMetricsExtracted
    \/ OnOpenPopup
    \/ OnUnhandled
    \/ OnZapierMetricsExtracted
    \/ OnGetMetrics
    \/ OnAnalyzeTab
    \/ AnalyzeQueried
    \/ DeliverExtractMetrics
    \/ DeliverExtractMetricsZapier

\* The coordinator does not read the page: one page and one address stand for all.
CoordInit ==
    /\ Init
    /\ href = "make.com/a"
    /\ dom = Page(0, Null, Null, Null, 0, 0, 0)

CoordSpec == CoordInit /\ [][CoordNext]_vars

(***************************************************************************)
(* The snapshot map fed by several Make tabs                               *)
(***************************************************************************)

\* What the Make tabs show when they extract
StorePages ==
    { Page(0, Null, 0, 10000, 0, 0, 0),
      Page(5, Null, 950, 1000, 4, 1, 0) }

\* tryExtract in one of the Make tabs reports the metric set it has just
\* extracted; its timestamp is the time of the extraction.
TabReports ==
    /\ \E p \in StorePages :
          Send([type |-> "METRICS_EXTRACTED", metrics |-> extractMakeMetrics(p)])
    /\ ev' = [EvNone EXCEPT !.op = "send"]
    /\ UNCHANGED <<href, dom, navigated, seenUrl>>
    /\ UNCHANGED extractorVars
    /\ UNCHANGED coordVars
    /\ UNCHANGED auxVars

\* The badge of one of the Make tabs is clicked: its handler sends the metric
\* set the badge was injected with, extracted at that tab's time t.
TabBadgeClicked ==
    /\ \E p \in StorePages, t \in Times :
          /\ t <= now
          /\ Send([type |-> "OPEN_POPUP",
                   metrics |-> [extractMakeMetrics(p) EXCEPT !.timestamp = t]])
    /\ ev' = [EvNone EXCEPT !.op = "click"]
    /\ UNCHANGED <<href, dom, navigated, seenUrl>>
    /\ UNCHANGED extractorVars
    /\ UNCHANGED coordVars
    /\ UNCHANGED auxVars

StoreNext ==
    \/ TabReports
    \/ TabBadgeClicked
    \/ OnMetricsExtracted
    \/ OnOpenPopup
    \/ Tick

StoreSpec == CoordInit /\ [][StoreNext]_vars

\* The popup against the cache the content script writes, with a clock.
PopupNext ==
    \/ Tick
    \/ ContentScriptStores
    \/ PopupOpen
    \/ PopupLoad
    \/ PopupResponse
    \/ PopupFallback
    \/ PopupReanalyze
    \/ PopupClose

PopupSpec == Init /\ [][PopupNext]_vars

\* The health scorer applied to metric sets from bounded sets of field values.
ScoreNext == ProbeScore

ScoreSpec == ScoreInit /\ [][ScoreNext]_vars

\* Each lookup function applied to inputs from bounded sets.
LookupNext ==
    \/ CallQueryFirst
    \/ CallQueryAllFirst
    \/ CallCountScenariosByStatus
    \/ CallExtractNumber
    \/ CallExtractMakeMetrics
    \/ CallExtractOperationsUsed
    \/ CallExtractOperationsLimit

LookupSpec == LookupInit /\ [][LookupNext]_vars

-----------------------------------------------------------------------------
(* Properties *)

IsAttempt(e) == e.op \in {"init", "poll"} /\ e.ran

\* C1: at most one scheduled extraction attempt (pending setTimeout of poll)
\* is outstanding at any time.
C1_AtMostOnePending == Len(timers) <= 1

\* C2: no extraction attempt that was scheduled before a Reset runs after it.
C2_NoStaleAttempt == ~(ev.op = "poll" /\ ev.stale)

\* C3: whenever the location has changed without a reload and the page
\* mutates, in whatever state the controller is, the attempt counter is back
\* at 0 and a fresh attempt is scheduled after the settle delay.
C3_NavigationResets ==
    ev.nav => /\ attempts = 0
              /\ \E j \in DOMAIN timers : timers[j] = Timer(SettleDelay, FALSE)

\* C4: in a run with no navigation and no success, the attempts are numbered
\* 1, 2, ..., 30 one by one; below 30 exactly one further attempt is
\* scheduled, and at 30 the controller has stopped with none scheduled.
C4_ExactlyMaxAttempts ==
    /\ [](~navigated /\ storage = NoMetrics /\ pc = "running" =>
            /\ attempts \in 1..30
            /\ attempts < 30 => Len(timers) = 1
            /\ attempts = 30 => timers = <<>>)
    /\ [][~navigated' /\ storage' = NoMetrics /\ IsAttempt(ev') =>
            attempts' = attempts + 1]_vars

C4_Witness ==
    /\ ~navigated /\ storage = NoMetrics
    /\ ev.op = "poll" /\ ev.done
    /\ attempts = 30 /\ timers = <<>>

\* the delays of C5 in quarter-milliseconds: 500, 750, 1125, 1687.5, 2531.25, 3000 ms
C5_Delays == <<2000, 3000, 4500, 6750, 10125, 12000>>

\* C5: in a run with no navigation, the delay scheduled after the k-th failed
\* attempt is the k-th of 500, 750, 1125, 1687.5, 2531.25, 3000, 3000, ... ms;
\* from one failed attempt to the next it never decreases and never exceeds 3000 ms.
C5_BackoffDelays ==
    /\ [](~navigated /\ timers # <<>> =>
            /\ attempts >= 1
            /\ timers[1].delay = C5_Delays[IF attempts < 6 THEN attempts ELSE 6])
    /\ [][~navigated' /\ timers # <<>> /\ timers' # <<>> =>
            /\ timers'[1].delay >= timers[1].delay
            /\ timers'[1].delay <= 4 * 3000]_vars

C5_Witness ==
    /\ ~navigated
    /\ attempts = 8
    /\ timers # <<>> /\ timers[1].delay = 4 * 3000

\* C6: the attempt that takes the counter to maxAttempts without data sends
\* exactly one METRICS_EXTRACTION_FAILED message, which carries no metric set;
\* it writes neither the cache nor the page badge, and the coordinator, when
\* it handles the message, stores and displays no score.
C6_ExhaustedIsDistinct ==
    /\ [][IsAttempt(ev') /\ ~hasData(extractMakeMetrics(dom)) /\ attempts + 1 >= 30 =>
            /\ Len(outbox') = Len(outbox) + 1
            /\ outbox'[Len(outbox')].type = "METRICS_EXTRACTION_FAILED"
            /\ "metrics" \notin DOMAIN outbox'[Len(outbox')]
            /\ storage' = storage
            /\ pageBadge' = pageBadge]_vars
    /\ [][ev'.op = "recv" /\ ev'.msg.type = "METRICS_EXTRACTION_FAILED" =>
            /\ metricsStore' = metricsStore
            /\ badgeText' = badgeText
            /\ badgeColor' = badgeColor]_vars

C6_Witness ==
    /\ ev.op = "recv" /\ ev.msg.type = "METRICS_EXTRACTION_FAILED"
    /\ attempts = 30
    /\ storage = NoMetrics
    /\ badgeText[MakeTab] = Null

\* the page's lookups found the item total or the usage count (0 included)
C7_Present(p) == p.scenarioRows > 0 \/ p.scenarioCount # Null \/ p.opsUsed # Null

\* C7: an attempt is treated as successful (cache written, badge shown,
\* METRICS_EXTRACTED sent) if and only if the item total or the primary usage
\* count is present.
C7_SuccessIffPresent ==
    [][IsAttempt(ev') =>
         (C7_Present(dom) <=>
            /\ storage' = extractMakeMetrics(dom)
            /\ pageBadge' = extractMakeMetrics(dom)
            /\ outbox' = Append(outbox, [type |-> "METRICS_EXTRACTED",
                                         metrics |-> extractMakeMetrics(dom)]))]_vars

\* C8: when EXTRACT_METRICS reaches the extractor context it runs one
\* extraction attempt and the response is the metric set or a failure marker.
C8_ExtractOnDemand ==
    ev.op = "EXTRACT_METRICS" =>
        /\ ev.ran
        /\ ev.response \in {"metrics", "failure marker"}

\* C9: once the coordinator has handled METRICS_EXTRACTION_FAILED from a tab,
\* that tab's badge text is empty.
C9_FailureClearsIndicator ==
    (ev.op = "recv" /\ ev.msg.type = "METRICS_EXTRACTION_FAILED") => badgeText[ev.tab] = Null

\* the colors of C10: green, yellow, orange, red
C10_Color(score) ==
    CASE score >= 80 -> "#22c55e"
      [] score >= 60 /\ score < 80 -> "#eab308"
      [] score >= 40 /\ score < 60 -> "#f97316"
      [] score < 40 -> "#ef4444"

\* C10: handling METRICS_EXTRACTED with a metric set that names a platform
\* replaces that platform's entry of the snapshot map, leaves the other
\* entry alone, and sets the sender tab's badge to the health score, colored
\* green from 80, yellow from 60, orange from 40 and red below.
C10_ExtractedUpdatesStoreAndBadge ==
    [][ev'.op = "recv" /\ ev'.msg.type = "METRICS_EXTRACTED"
         /\ ev'.msg.metrics.platform \in {"zapier", "make"} =>
         LET m == ev'.msg.metrics
             other == IF m.platform = "make" THEN "zapier" ELSE "make"
         IN  /\ metricsStore'[m.platform] = m
             /\ metricsStore'[other] = metricsStore[other]
             /\ badgeText' = [badgeText EXCEPT ![ev'.tab] = m.healthScore]
             /\ badgeColor' = [badgeColor EXCEPT ![ev'.tab] = C10_Color(m.healthScore)]]_vars

C10_Witness ==
    /\ ev.op = "recv" /\ ev.msg.type = "METRICS_EXTRACTED" /\ ev.tab = MakeTab
    /\ metricsStore.make.healthScore = 40
    /\ badgeColor[MakeTab] = "#f97316"
    /\ metricsStore.zapier # NoMetrics
    /\ badgeText[ZapierTab] = 79

\* C11: of the messages the coordinator receives, METRICS_EXTRACTED,
\* METRICS_EXTRACTION_FAILED and OPEN_POPUP are answered by nothing and leave
\* the channel closed,
\* GET_METRICS is answered with the store before the listener returns and
\* leaves the channel closed, and ANALYZE_TAB alone keeps the channel open,
\* its answer coming in a later step.
C11_OnlyAnalyzeTabKeepsChannelOpen ==
    ev.op = "recv" =>
        /\ ev.keepOpen <=> ev.msg.type = "ANALYZE_TAB"
        /\ ev.msg.type \in {"METRICS_EXTRACTED", "METRICS_EXTRACTION_FAILED", "OPEN_POPUP"} =>
              ev.response = "none"
        /\ ev.msg.type = "GET_METRICS" => ev.response = "metricsStore"
        /\ ev.msg.type = "ANALYZE_TAB" => (ev.response = "none" /\ analyze = "query")

C11_Witness ==
    /\ ev.op = "recv"
    /\ ev.msg.type = "ANALYZE_TAB"
    /\ ev.keepOpen
    /\ metricsStore.make # NoMetrics

\* A step in which analyzeCurrentTab calls sendResponse.
C12_Answers(e) == e.op \in {"respond", "EXTRACT_METRICS"} /\ e.response # "none"

\* C12: analyzeCurrentTab answers with an error and sends nothing when there
\* is no active tab or the tab is on no supported platform; on a supported
\* platform it sends one EXTRACT_METRICS to that tab and answers with the
\* content script's answer unchanged, or with an error when the delivery
\* failed. Each request is answered exactly once and never sent again.
C12_AnalyzeAnswersOnce ==
    [][ /\ ev'.active = "none" =>
              (ev'.response = "error: No active tab" /\ ev'.msg = NoMsg)
        /\ ev'.active = "other" =>
              (ev'.response = "error: Not on a supported platform" /\ ev'.msg = NoMsg)
        /\ ev'.active \in {"make", "zapier"} =>
              /\ ev'.response = "none"
              /\ ev'.msg = [type |-> "EXTRACT_METRICS"]
              /\ ev'.tab = (IF ev'.active = "make" THEN MakeTab ELSE ZapierTab)
        /\ (ev'.op = "EXTRACT_METRICS" /\ ev'.reply # "none") => ev'.response = ev'.reply
        /\ (ev'.op = "EXTRACT_METRICS" /\ ev'.reply = "none") =>
              ev'.response = "error: delivery failed"
        /\ C12_Answers(ev') <=> (analyze # "idle" /\ analyze' = "idle")
        /\ ev'.op = "tabs.sendMessage" => analyze = "query"
        /\ analyze \in {"sent", "sentZapier"} => analyze' \in {analyze, "idle"}
      ]_vars

C12_Witness ==
    /\ ev.op = "EXTRACT_METRICS"
    /\ ev.tab = ZapierTab
    /\ ev.reply = "failure marker"
    /\ ev.response = "failure marker"
    /\ analyze = "idle"

\* the payload fields the protocol table lists for each message type
C13_Payload(type) ==
    CASE type \in {"METRICS_EXTRACTED", "OPEN_POPUP"} -> {"type", "metrics"}
      [] type = "METRICS_EXTRACTION_FAILED" -> {"type", "platform", "url"}
      [] type \in {"GET_METRICS", "ANALYZE_TAB", "EXTRACT_METRICS"} -> {"type"}
      [] OTHER -> {}

\* C13: every message in flight has a type of the protocol and exactly the
\* payload fields the protocol table lists for that type; the failure
\* notification carries the platform and the url.
C13_PayloadsMatchProtocol ==
    \A i \in DOMAIN outbox : DOMAIN outbox[i] = C13_Payload(outbox[i].type)

\* C14: handling OPEN_POPUP leaves the badge text and color of every tab, the
\* persisted cache and a running analysis as they were, sends no response and
\* closes the channel; it replaces the snapshot of the carried metric set's
\* platform and no other, and changes nothing when no metric set is carried.
C14_OpenPopupUpdatesStoreOnly ==
    [][ (ev'.op = "recv" /\ ev'.msg.type = "OPEN_POPUP") =>
          /\ badgeText' = badgeText
          /\ badgeColor' = badgeColor
          /\ storage' = storage
          /\ analyze' = analyze
          /\ ev'.response = "none"
          /\ ~ev'.keepOpen
          /\ IF ev'.msg.metrics = NoMetrics
             THEN metricsStore' = metricsStore
             ELSE metricsStore' =
                      [metricsStore EXCEPT ![ev'.msg.metrics.platform] = ev'.msg.metrics]
      ]_vars

C14_Witness ==
    /\ ev.op = "recv"
    /\ ev.msg.type = "OPEN_POPUP"
    /\ ev.msg.metrics # NoMetrics
    /\ metricsStore.make.healthScore = 100
    /\ badgeText[MakeTab] = 30

\* stale as C15 words it: no timestamp, or an age of five minutes or more
C15_Stale(storedAt) == storedAt = Null \/ now - storedAt >= 5 * 60 * 1000

\* C15: isRecent rejects exactly the stale timestamps (age of 5 minutes or
\* more, or no timestamp), and when the popup has read the cache it displays
\* the snapshot and sends nothing if the snapshot exists and is not stale, and
\* sends ANALYZE_TAB otherwise.
C15_FreshCacheOrRequest ==
    /\ \A ts \in Times \cup {Null} : isRecent(ts) <=> ~C15_Stale(ts)
    /\ ev.op = "popup load" =>
          IF popup.stored # NoMetrics /\ ~C15_Stale(popup.stored.timestamp)
          THEN popup.view = "metrics" /\ popup.sent = "none"
          ELSE popup.view = "loading" /\ popup.sent = "ANALYZE_TAB"

C15_Witness ==
    /\ ev.op = "popup load"
    /\ popup.stored # NoMetrics
    /\ now - popup.stored.timestamp = 5 * 60 * 1000
    /\ popup.sent = "ANALYZE_TAB"

\* the attempt of this step reported success: METRICS_EXTRACTED was sent
C16_Succeeded ==
    /\ IsAttempt(ev')
    /\ Len(outbox') = Len(outbox) + 1
    /\ outbox'[Len(outbox')].type = "METRICS_EXTRACTED"

\* C16: the cache holds one snapshot of the platform or none; an attempt that
\* reports success replaces it by that attempt's metric set, and every other
\* step (a failed attempt, exhaustion, a stale timer's attempt, a navigation,
\* the coordinator's handlers) leaves it as it was.
C16_CacheIsLastSuccess ==
    [][ /\ storage'.platform \in {"null", "make"}
        /\ IF C16_Succeeded
           THEN /\ storage' = outbox'[Len(outbox')].metrics
                /\ storage' = extractMakeMetrics(dom)
           ELSE storage' = storage
      ]_vars

C16_Witness ==
    /\ IsAttempt(ev)
    /\ ev.done
    /\ outbox # <<>>
    /\ outbox[Len(outbox)].type = "METRICS_EXTRACTION_FAILED"
    /\ storage # NoMetrics
    /\ storage.healthScore = 30

\* the usage penalty of C17
C17_UsagePenalty(u) ==
    IF u = Null THEN 0
    ELSE IF u > 90 THEN 30 ELSE IF u > 75 THEN 15 ELSE IF u > 50 THEN 5 ELSE 0

\* the error penalty of C17
C17_ErrorPenalty(e) == IF e = Null THEN 0 ELSE Min(2 * e, 40)

\* C17: the score returned is the integer nearest to 100 minus the usage
\* penalty (30 above 90, 15 above 75, 5 above 50), the error penalty
\* min(2 * errorRate, 40) and an inactive penalty p = c * inactive / total
\* capped at no more than 20, each taken only when its input is present, and
\* not below 0; it lies in 0..100, is the same for either platform, and is
\* 100 when every field is absent.
C17_ScoreFormula ==
    probe.score # Null =>
        LET m == probe.m
            base == 100 - C17_UsagePenalty(m.operationsUsagePercent)
                        - C17_ErrorPenalty(m.errorRate)
            applies == m.inactiveScenarios # Null /\ m.totalScenarios # Null
                       /\ m.inactiveScenarios > 0 /\ m.totalScenarios > 0
            t == IF applies THEN m.totalScenarios ELSE 1
            \* t times the inactive penalty
            tp == IF applies THEN Min(50 * m.inactiveScenarios, 15 * t) ELSE 0
        IN  /\ probe.score \in 0..100
            /\ tp <= 20 * t
            \* probe.score is max(0, r) for the integer r with
            \* r - 1/2 <= base - tp/t < r + 1/2
            /\ \E r \in -100..100 :
                  /\ 2 * t * r - t <= 2 * (t * base - tp)
                  /\ 2 * (t * base - tp) < 2 * t * r + t
                  /\ probe.score = Max(0, r)
            /\ probe.score = calculateHealthScore([m EXCEPT !.platform = "make"])
            /\ (m.operationsUsagePercent = Null /\ m.errorRate = Null
                 /\ m.totalScenarios = Null /\ m.inactiveScenarios = Null) => probe.score = 100

C17_Witness ==
    /\ probe.score = 80
    /\ probe.m.operationsUsagePercent = 51
    /\ probe.m.errorRate = 1
    /\ probe.m.inactiveScenarios = 4
    /\ probe.m.totalScenarios = 15

\* C18: raising usagePercent alone, or errorRate alone, never raises the score.
C18_ScoreMonotone ==
    probe.score # Null =>
        /\ \A u \in UsagePercents \ {Null} :
              (probe.m.operationsUsagePercent # Null /\ u >= probe.m.operationsUsagePercent) =>
                  calculateHealthScore([probe.m EXCEPT !.operationsUsagePercent = u])
                      <= probe.score
        /\ \A e \in ErrorRates \ {Null} :
              (probe.m.errorRate # Null /\ e >= probe.m.errorRate) =>
                  calculateHealthScore([probe.m EXCEPT !.errorRate = e]) <= probe.score

C18_Witness ==
    /\ probe.score = 85
    /\ probe.m.operationsUsagePercent = 76
    /\ probe.m.errorRate = 0
    /\ calculateHealthScore([probe.m EXCEPT !.operationsUsagePercent = 91]) = 70
    /\ calculateHealthScore([probe.m EXCEPT !.errorRate = 21]) = 45

\* C19: in the cached metric set the usage percent is
\* round(100 * usageCount / usageLimit) when both are present and the limit
\* is positive, a usage count of 0 included, and is absent otherwise.
C19_UsagePercentFromPair ==
    storage # NoMetrics =>
        IF /\ storage.operationsUsed # Null
           /\ storage.operationsLimit # Null
           /\ storage.operationsLimit > 0
        THEN storage.operationsUsagePercent =
                 Round(100 * storage.operationsUsed, storage.operationsLimit)
        ELSE storage.operationsUsagePercent = Null

\* C20: in the metric set an attempt reports, the item total is null when
\* neither the scenario list nor the scenario-count element gave one, and the
\* usage count and limit are null when their lookups found nothing.
C20_AbsentIsNull ==
    [][ (IsAttempt(ev') /\ pageBadge' # pageBadge) =>
          /\ (dom.scenarioRows = 0 /\ dom.scenarioCount = Null) =>
                 pageBadge'.totalScenarios = Null
          /\ dom.opsUsed = Null => pageBadge'.operationsUsed = Null
          /\ dom.opsLimit = Null => pageBadge'.operationsLimit = Null
      ]_vars

\* C27: the attempt counter is always in 0..maxAttempts, so no attempt starts
\* with the counter at maxAttempts or above.
C27_CounterInRange == attempts \in 0..maxAttempts

\* C28: an attempt sends METRICS_EXTRACTED or METRICS_EXTRACTION_FAILED only
\* if no outcome has been sent since page load or the last navigation reset.
C28_OneOutcomePerSequence ==
    [][ ( /\ IsAttempt(ev')
          /\ Len(outbox') = Len(outbox) + 1
          /\ outbox'[Len(outbox')].type \in {"METRICS_EXTRACTED", "METRICS_EXTRACTION_FAILED"} )
        => ~reported ]_vars

\* C29: if location.href changes only finitely often, then from some point on
\* no setTimeout(poll) callback is pending: every poll chain has stopped.
C29_PollingStops ==
    (<>[](ev.op # "navigate")) => <>[](timers = <<>>)

C29_Witness ==
    /\ navigated
    /\ pc = "running"
    /\ timers = <<>>
    /\ attempts >= maxAttempts
    /\ ev.op = "poll"

\* the selectors of a chain that can be evaluated and match something
C21_Matching(chain) == { i \in DOMAIN chain : chain[i].valid /\ chain[i].els # <<>> }

\* the lowest index of a non-empty set of indices
C21_Lowest(is) == CHOOSE i \in is : \A j \in is : i <= j

\* C21: queryFirst and queryAllFirst return the match of the lowest-index
\* selector that is well-formed and matches, consult no selector after it,
\* pass over malformed selectors, and return null / the empty list exactly
\* when no selector of the chain matches.
C21_FirstMatchingSelector ==
    (call.fn \in {"queryFirst", "queryAllFirst"} /\ call.result # Pending) =>
        LET chain == call.arg
            good == C21_Matching(chain)
        IN  IF good = {}
            THEN /\ call.result.consulted = Len(chain)
                 /\ call.fn = "queryFirst" => call.result.el = Null
                 /\ call.fn = "queryAllFirst" => call.result.els = <<>>
            ELSE /\ call.result.consulted = C21_Lowest(good)
                 /\ call.fn = "queryFirst" =>
                        call.result.el = chain[C21_Lowest(good)].els[1]
                 /\ call.fn = "queryAllFirst" =>
                        call.result.els = chain[C21_Lowest(good)].els

C21_Witness ==
    /\ call.fn = "queryFirst"
    /\ call.result # Pending
    /\ Len(call.arg) = 3
    /\ ~call.arg[1].valid
    /\ call.arg[2].els = <<2, 3>>
    /\ call.arg[3].els = <<1>>
    /\ call.result.el = 2

\* the synonyms of a category
C22_Synonyms(status) == { Terms(status)[k] : k \in DOMAIN Terms(status) }

\* the elements each strategy matches for a category as a whole
C22_ByHook(doc, status) ==
    { i \in DOMAIN doc : \/ doc[i].dataStatus \in C22_Synonyms(status)
                          \/ (doc[i].role /\ doc[i].aria \cap C22_Synonyms(status) # {}) }

C22_ByText(doc, status) ==
    LET pool == IF \E i \in DOMAIN doc : doc[i].cls
                THEN { i \in DOMAIN doc : doc[i].cls }
                ELSE { i \in DOMAIN doc : doc[i].role }
    IN  { i \in pool : (doc[i].text \cup doc[i].aria) \cap C22_Synonyms(status) # {} }

C22_ByToggle(doc, status) ==
    { i \in DOMAIN doc : \/ (status = "active" /\ doc[i].switch = "true")
                          \/ (status = "inactive" /\ doc[i].switch = "false") }

\* C22: the count returned is the number of elements the first strategy with
\* a non-zero total matches over all synonyms of the category together, and
\* 0 only when every strategy matches nothing.
C22_FirstStrategyWholeCategory ==
    (call.fn = "countScenariosByStatus" /\ call.result # Pending) =>
        LET doc == call.arg.doc
            st == call.arg.status
            t1 == Cardinality(C22_ByHook(doc, st))
            t2 == Cardinality(C22_ByText(doc, st))
            t3 == Cardinality(C22_ByToggle(doc, st))
        IN  call.result.count = IF t1 > 0 THEN t1 ELSE IF t2 > 0 THEN t2 ELSE t3

\* C23: the count never exceeds the number of distinct elements that match a
\* synonym of the category, and a page whose only element matches two or
\* more synonyms is counted 1.
C23_NoDoubleCount ==
    (call.fn = "countScenariosByStatus" /\ call.result # Pending) =>
        LET doc == call.arg.doc
            st == call.arg.status
            candidates == C22_ByHook(doc, st) \cup C22_ByText(doc, st)
                              \cup C22_ByToggle(doc, st)
            twice(i) == Cardinality((doc[i].text \cup doc[i].aria) \cap C22_Synonyms(st)) >= 2
        IN  /\ call.result.count <= Cardinality(candidates)
            /\ (Len(doc) = 1 /\ twice(1)) => call.result.count = 1

C23_Witness ==
    /\ call.fn = "countScenariosByStatus"
    /\ call.result # Pending
    /\ call.arg.status = "active"
    /\ Len(call.arg.doc) = 2
    /\ call.arg.doc[1].text = {"running", "on"}
    /\ call.arg.doc[2].text = {"paused"}
    /\ call.result = [count |-> 1, strategy |-> 2]

\* C24: extractNumber returns null for a text without a digit (the empty
\* text included) and a number for every text with one; for a text of digits,
\* commas, letters and percent signs that number is the first run of digits
\* and commas read without the commas.
C24_NumberOrAbsent ==
    (call.fn = "extractNumber" /\ call.result # Pending) =>
        LET text == call.arg
            hasDigit == \E i \in DOMAIN text : text[i] \in Digits
            plain == \A i \in DOMAIN text : text[i] \notin {".", " "}
            first == CHOOSE i \in DOMAIN text :
                         text[i] \in Digits /\ \A j \in 1..(i - 1) : text[j] \notin Digits
            last == CHOOSE j \in first..Len(text) :
                        /\ \A k \in first..j : text[k] \in Digits \cup {","}
                        /\ j < Len(text) => text[j + 1] \notin Digits \cup {","}
            IsDigit(c) == c \in Digits
        IN  /\ ~hasDigit => call.result = [kind |-> "null"]
            /\ hasDigit => call.result.kind = "number"
            /\ (hasDigit /\ plain) =>
                  call.result = [kind |-> "number", scale |-> 0,
                                 num |-> DigitsValue(SelectSeq(SubSeq(text, first, last),
                                                               IsDigit))]

\* C25: a usage percent that extractMakeMetrics computed is an integer from 0 to 100.
C25_PercentInRange ==
    (call.fn = "extractMakeMetrics" /\ call.result # Pending) =>
        (call.result.operationsUsagePercent # Null =>
            call.result.operationsUsagePercent \in 0..100)

\* C26: the usage count and the usage limit come from free text only when
\* every other step of the chain has failed: no data-testid element, no
\* aria-label element, and no progressbar carrying the value.
C26_TextIsLastResort ==
    ( /\ call.fn \in {"extractOperationsUsed", "extractOperationsLimit"}
      /\ call.result # Pending
      /\ call.result.source = "text" )
    => /\ ~call.arg.hook.found
       /\ ~call.arg.aria.found
       /\ ~(call.arg.bar.found /\ call.arg.bar.value # Null)

\* C30: a message never replaces the stored metric set of a platform by one
\* with an older timestamp, and never clears an entry that was set.
C30_NeverRegresses ==
    [][ \A pf \in DOMAIN metricsStore :
            metricsStore[pf] # NoMetrics =>
                /\ metricsStore'[pf] # NoMetrics
                /\ metricsStore'[pf].timestamp >= metricsStore[pf].timestamp ]_vars

=============================================================================
